---- MODULE Spec2Model ----
(***************************************************************************)
(* The overlay synchronisation controller of pwmless-brightness-control.   *)
(*                                                                         *)
(* Two revisions of the plugin entry point are modelled side by side; the  *)
(* variable `variant` says which one is running:                           *)
(*   "throttle"  src/unnamed/part_000  (boolean gates, THROTTLE_MS)        *)
(*   "debounce"  src/src/index.tsx     (trailing timers, 300 ms)           *)
(* Both drive the Overlay component of src/unnamed/part_002 through the    *)
(* update callback registered by OverlayWrapper.                           *)
(*                                                                         *)
(* Units.  Slider percents are integers.  Values the code keeps as         *)
(* fractions are kept as scaled integers:                                  *)
(*   overlay opacity and LUT brightness   in hundredths (0.5   -> 50)      *)
(*   vibrancy                             in tenths     (0.5   -> 5)       *)
(*   percent handed to the Overlay        in hundredths of a percent       *)
(*                                                      (99.5  -> 9950)    *)
(*   opacity returned by getSmoothOpacity in 10^-8      (0.997 -> 99700000)*)
(* Time.  Under Spec, SpecRate and SpecAny delays are arbitrary: a pending  *)
(* timer may fire at any later step.  Under SpecTimed (hist.metric) time   *)
(* advances in steps of Unit milliseconds and a timer fires when its delay *)
(* has elapsed.  The 250 ms polling interval is a repeating tick.          *)
(***************************************************************************)
EXTENDS Integers, Sequences, FiniteSets, TLC

\* ---------------------------------------------------------------- constants

THROTTLE_MS == 100
HDR_CHECK_INTERVAL_MS == 250
DEBOUNCE_MS == 300

DEFAULT_OVERLAY_OPACITY == 50
DEFAULT_LUT_BRIGHTNESS == 100
DEFAULT_VIBRANCY == 5
DEFAULT_TEMPERATURE == 9500

\* slider limits of the settings panel
OverlaySliderMin == 5
LutSliderMin == 10
PercentMax == 100
TemperatureMin == 3500
TemperatureMax == 9000
VibrancyMax == 10

NEUTRAL_TEMP == 6500
OPACITY_AT_ZERO == 99700000

\* ------------------------------------------------------------------- bounds

MaxSent == 2           \* backend setter calls issued in one run
MaxOutstanding == 2    \* HDR polls in flight at once
MaxBurst == 2          \* calls counted in one burst of calls

Unit == THROTTLE_MS
ThrottleUnits == THROTTLE_MS \div Unit
DebounceUnits == DEBOUNCE_MS \div Unit

\* an absent value: a null timer handle, a key localStorage.getItem finds nothing for
None == 0 - 1000000
NoItem == None

Setters == {"Lut", "Vibrancy", "Temperature"}

\* the backend method a setter calls
MethodOf(s) == IF s = "Vibrancy" THEN "set_vibrancy" ELSE "set_brightness_and_temperature"

Methods == {MethodOf(s) : s \in Setters}

\* values the sliders deliver in a run
OverlayValues == {30, PercentMax}
LutValues == {LutSliderMin, PercentMax}
VibrancyValues == {0, 8}
TemperatureValues == {TemperatureMin, NEUTRAL_TEMP}

\* ------------------------------------------------------------ pure functions

RECURSIVE ISqrtIn(_, _, _)
ISqrtIn(x, lo, hi) ==
  IF lo >= hi THEN lo
  ELSE LET mid == (lo + hi + 1) \div 2
       IN IF mid * mid <= x THEN ISqrtIn(x, mid, hi) ELSE ISqrtIn(x, lo, mid - 1)

\* floor of the square root of x, 0 <= x < 2^30
ISqrt(x) == ISqrtIn(x, 0, 32767)

\* getSmoothOpacity, exponent 1.5: t^1.5 = t * sqrt(t), t = (100 - percent) / 100.
\* percent is in hundredths of a percent, the result in 10^-8.
GetSmoothOpacity(percent) ==
  IF percent >= 10000 THEN 0
  ELSE IF percent <= 0 THEN OPACITY_AT_ZERO
  ELSE LET n == 10000 - percent IN n * ISqrt(10000 * n)

\* ------------------------------------------------------ preference store

GetOverlayOpacity(st) == IF st.overlay = NoItem THEN DEFAULT_OVERLAY_OPACITY ELSE st.overlay
GetLutBrightness(st) == IF st.lut = NoItem THEN DEFAULT_LUT_BRIGHTNESS ELSE st.lut
GetVibrancy(st) == IF st.vibrancy = NoItem THEN DEFAULT_VIBRANCY ELSE st.vibrancy
GetTemperature(st) == IF st.temperature = NoItem THEN DEFAULT_TEMPERATURE ELSE st.temperature
GetOverlayBrightnessPercent(st) == 100 - GetOverlayOpacity(st)
GetLutBrightnessPercent(st) == GetLutBrightness(st)

EmptyStore == [overlay |-> NoItem, lut |-> NoItem, vibrancy |-> NoItem, temperature |-> NoItem]

\* -------------------------------------------------------------------- state

VARIABLES
  variant,                         \* which revision of the entry point runs
  store,                           \* localStorage: the four preference keys
  globalOverlayBrightnessPercent,  \* module-level current overlay brightness
  globalTemperature,               \* module-level current temperature
  isHDRActive,                     \* cached HDR flag
  overlayUpdateCallback,           \* TRUE while OverlayWrapper's callback is set
  hdrStateUpdateCallback,          \* TRUE while the panel's callback is set
  hdrCheckInterval,                \* None, or the handle of the polling interval
  wrapper,                         \* OverlayWrapper: phase and its React state
  panel,                           \* BrightnessSettings: mounted, isHDREnabled
  polls,                           \* get_hdr_status calls in flight, in issue order
  backendHDR,                      \* the display's real HDR flag
  canUpdate,                       \* throttle gates canUpdateLut/Vibrancy/Temperature
  inflight,                        \* per setter: backend calls issued, not settled
  timeouts,                        \* per setter: pending setTimeout, or None
  sent,                            \* backend setter calls issued so far
  registered,                      \* "BlackOverlay" is a registered global component
  dismounted,                      \* onDismount has run
  liveIntervals,                   \* setInterval timers created and not cleared
  readdTimers,                     \* part_001: pending re-add timeouts, oldest first
  surface,                         \* the Overlay component: build, props and styles
  hist                             \* history: last operation, last values, elapsed times

vars == <<variant, store, globalOverlayBrightnessPercent, globalTemperature, isHDRActive,
          overlayUpdateCallback, hdrStateUpdateCallback, hdrCheckInterval, wrapper, panel,
          polls, backendHDR, canUpdate, inflight, timeouts, sent, registered, dismounted,
          liveIntervals, readdTimers, surface, hist>>

\* what the three update functions of definePlugin read and write
RateState == [store |-> store, globalTemperature |-> globalTemperature,
              canUpdate |-> canUpdate, inflight |-> inflight, timeouts |-> timeouts,
              sent |-> sent]

NoTimeout == [rem |-> None, val |-> None]
NoBurst == [calls |-> 0, sends |-> 0]
NoOrder == [stale |-> None, newest |-> None]
\* the Overlay component left out of a specification
NoSurface == [build |-> "none", phase |-> "unmounted", opacityPercent |-> None,
              temperatureKelvin |-> None, opacity |-> None, tintOpacity |-> None]
Unmounted == [phase |-> "unmounted", opacityPercent |-> None, temperature |-> None]

\* the state after definePlugin has run; metric says whether time is measured,
\* order whether the history follows the order in which the polls were issued
InitWith(metric, order) ==
  /\ variant \in {"throttle", "debounce"}
  /\ store = EmptyStore                \* first run: no key is stored yet
  /\ globalOverlayBrightnessPercent = GetOverlayBrightnessPercent(store)
  /\ globalTemperature = GetTemperature(store)
  /\ isHDRActive = FALSE
  /\ overlayUpdateCallback = FALSE
  /\ hdrStateUpdateCallback = FALSE
  /\ hdrCheckInterval = HDR_CHECK_INTERVAL_MS
  /\ wrapper = Unmounted
  /\ panel = [mounted |-> FALSE, isHDREnabled |-> FALSE]
  /\ polls = <<"sent">>            \* checkHDRStatus() called once by startHDRMonitoring
  /\ backendHDR = FALSE
  /\ canUpdate = [s \in Setters |-> TRUE]
  /\ inflight = [s \in Setters |-> 0]
  /\ timeouts = [s \in Setters |-> NoTimeout]
  /\ sent = <<>>
  /\ registered = TRUE
  /\ dismounted = FALSE
  /\ liveIntervals = 1               \* setInterval called once by startHDRMonitoring
  /\ readdTimers = <<>>
  /\ hist = [metric |-> metric,
             lastOp |-> [op |-> "definePlugin", arg |-> None],
             committed |-> [overlay |-> None, lut |-> None, vibrancy |-> None,
                            temperature |-> None],
             lastArg |-> [s \in Setters |-> None],
             lastPushed |-> [s \in Setters |-> FALSE],
             since |-> [s \in Setters |-> DebounceUnits],
             burst |-> [s \in Setters |-> NoBurst],
             chanSends |-> [m \in Methods |-> 0],
             order |-> IF order THEN [stale |-> 0, newest |-> None] ELSE NoOrder]

\* the state after definePlugin, the order of the polls not followed
InitOf(metric) == InitWith(metric, FALSE)

Init == InitOf(FALSE) /\ surface = NoSurface
InitTimed == InitOf(TRUE) /\ surface = NoSurface

\* ------------------------------------------------------------ the overlay

\* applyOverlaySettings without the subtraction of the stored overlay opacity
ApplyOverlaySettings_Uncompensated(hdr, percent, temp, st, w, cb) ==
  LET targetPercent == IF hdr THEN percent ELSE 100
  IN IF cb THEN [w EXCEPT !.opacityPercent = targetPercent * 100, !.temperature = temp]
     ELSE w

\* applyOverlaySettings writing to the surface without testing the callback
ApplyOverlaySettings_NoCallbackTest(hdr, percent, temp, st, w, cb) ==
  LET targetPercent == IF hdr THEN percent ELSE 100
      compensatedPercent == targetPercent * 100 - GetOverlayOpacity(st)
  IN [w EXCEPT !.opacityPercent = compensatedPercent, !.temperature = temp]

\* applyOverlaySettings (part_000) / applyOverlayOpacity (index.tsx): the wrapper
\* state after the call.  hdr, percent, temp are the module-level variables, st the
\* store, w the wrapper, cb whether overlayUpdateCallback is set.
ApplyOverlaySettings(hdr, percent, temp, st, w, cb) ==
  LET targetPercent == IF hdr THEN percent ELSE 100
      compensatedPercent == targetPercent * 100 - GetOverlayOpacity(st)
  IN IF cb THEN [w EXCEPT !.opacityPercent = compensatedPercent, !.temperature = temp]
     ELSE w

\* OverlayWrapper's useState initialisers
WrapperInitialState(hdr, percent, temp) ==
  [phase |-> "rendered",
   opacityPercent |-> (IF hdr THEN percent ELSE 100) * 100,
   temperature |-> temp]

\* the opacity style of the black layer for a wrapper state
RenderedOpacity(w) == GetSmoothOpacity(w.opacityPercent)

\* ------------------------------------------------- rate-limited backend pushes

\* one callPluginMethod of a setter and its arguments
Push(by, b, t, v) ==
  [by |-> by, method |-> MethodOf(by), brightness |-> b, temperature_kelvin |-> t,
   vibrancy |-> v]

\* updateLutBrightness (part_000) never closing its gate
UpdateLutBrightnessThrottle_GateLeftOpen(rs, percent) ==
  LET st == [rs.store EXCEPT !.lut = percent]
  IN [rs EXCEPT !.store = st,
                !.inflight["Lut"] = @ + 1,
                !.sent = Append(@, Push("Lut", percent, GetTemperature(st), None))]

\* part_000: the throttled update functions.  rs is a RateState.
UpdateLutBrightnessThrottle(rs, percent) ==
  LET st == [rs.store EXCEPT !.lut = percent]
  IN IF ~rs.canUpdate["Lut"] THEN [rs EXCEPT !.store = st]
     ELSE [rs EXCEPT !.store = st,
                     !.canUpdate["Lut"] = FALSE,
                     !.inflight["Lut"] = @ + 1,
                     !.sent = Append(@, Push("Lut", percent, GetTemperature(st), None))]

\* updateVibrancy with the gate tested before the store is written
UpdateVibrancyThrottle_GateFirst(rs, value) ==
  IF ~rs.canUpdate["Vibrancy"] THEN rs
  ELSE [rs EXCEPT !.store.vibrancy = value,
                  !.canUpdate["Vibrancy"] = FALSE,
                  !.inflight["Vibrancy"] = @ + 1,
                  !.sent = Append(@, Push("Vibrancy", None, None, value))]

\* updateVibrancy (part_000) restarting the cooldown when it finds the gate closed
UpdateVibrancyThrottle_RestartCooldown(rs, value) ==
  LET st == [rs.store EXCEPT !.vibrancy = value]
  IN IF ~rs.canUpdate["Vibrancy"]
     THEN [rs EXCEPT !.store = st,
                     !.timeouts["Vibrancy"] = [rem |-> ThrottleUnits, val |-> None]]
     ELSE [rs EXCEPT !.store = st,
                     !.canUpdate["Vibrancy"] = FALSE,
                     !.inflight["Vibrancy"] = @ + 1,
                     !.sent = Append(@, Push("Vibrancy", None, None, value))]

UpdateVibrancyThrottle(rs, value) ==
  LET st == [rs.store EXCEPT !.vibrancy = value]
  IN IF ~rs.canUpdate["Vibrancy"] THEN [rs EXCEPT !.store = st]
     ELSE [rs EXCEPT !.store = st,
                     !.canUpdate["Vibrancy"] = FALSE,
                     !.inflight["Vibrancy"] = @ + 1,
                     !.sent = Append(@, Push("Vibrancy", None, None, value))]

\* updateTemperature (part_000) calling the backend whatever the gate says
UpdateTemperatureThrottle_NoGate(rs, value) ==
  LET st == [rs.store EXCEPT !.temperature = value]
  IN [rs EXCEPT !.globalTemperature = value,
                !.store = st,
                !.canUpdate["Temperature"] = FALSE,
                !.inflight["Temperature"] = @ + 1,
                !.sent = Append(@, Push("Temperature", GetLutBrightness(st), value, None))]

UpdateTemperatureThrottle(rs, value) ==
  LET st == [rs.store EXCEPT !.temperature = value]
  IN IF ~rs.canUpdate["Temperature"]
     THEN [rs EXCEPT !.globalTemperature = value, !.store = st]
     ELSE [rs EXCEPT !.globalTemperature = value,
                     !.store = st,
                     !.canUpdate["Temperature"] = FALSE,
                     !.inflight["Temperature"] = @ + 1,
                     !.sent = Append(@, Push("Temperature", GetLutBrightness(st), value, None))]

\* updateLutBrightness (index.tsx) leaving a pending timer in place
UpdateLutBrightnessDebounce_KeepTimer(rs, percent) ==
  [rs EXCEPT !.store.lut = percent,
             !.timeouts["Lut"] = IF @.rem /= None THEN @
                                 ELSE [rem |-> DebounceUnits, val |-> percent]]

\* index.tsx: the debounced update functions.  clearTimeout + setTimeout replaces
\* the pending timer; val is the value the timer's closure captured.
UpdateLutBrightnessDebounce(rs, percent) ==
  [rs EXCEPT !.store.lut = percent,
             !.timeouts["Lut"] = [rem |-> DebounceUnits, val |-> percent]]

\* updateVibrancy (index.tsx) doing nothing when called with the stored value
UpdateVibrancyDebounce_SkipSame(rs, value) ==
  IF rs.store.vibrancy = value THEN rs
  ELSE [rs EXCEPT !.store.vibrancy = value,
                  !.timeouts["Vibrancy"] = [rem |-> DebounceUnits, val |-> value]]

UpdateVibrancyDebounce(rs, value) ==
  [rs EXCEPT !.store.vibrancy = value,
             !.timeouts["Vibrancy"] = [rem |-> DebounceUnits, val |-> value]]

UpdateTemperatureDebounce(rs, value) ==
  [rs EXCEPT !.globalTemperature = value,
             !.store.temperature = value,
             !.timeouts["Temperature"] = [rem |-> DebounceUnits, val |-> value]]

UpdateLutBrightness(rs, percent) ==
  IF variant = "throttle" THEN UpdateLutBrightnessThrottle(rs, percent)
  ELSE UpdateLutBrightnessDebounce(rs, percent)

UpdateVibrancy(rs, value) ==
  IF variant = "throttle" THEN UpdateVibrancyThrottle(rs, value)
  ELSE UpdateVibrancyDebounce(rs, value)

UpdateTemperature(rs, value) ==
  IF variant = "throttle" THEN UpdateTemperatureThrottle(rs, value)
  ELSE UpdateTemperatureDebounce(rs, value)

SetRateState(rs) ==
  /\ store' = rs.store
  /\ globalTemperature' = rs.globalTemperature
  /\ canUpdate' = rs.canUpdate
  /\ inflight' = rs.inflight
  /\ timeouts' = rs.timeouts
  /\ sent' = rs.sent

\* ---------------------------------------------------------------- history

\* hist keeps what the formulas below need to know of the past:
\*   lastOp     the step taken last and its argument
\*   committed  per preference, the value the user last passed to its handler
\*   lastArg    per update function, the value it was last called with
\*   lastPushed per update function, whether its last call has led to a backend
\*              call: at once (part_000), or when its timer fired (index.tsx)
\*   since      under measured time, per update function, the Units elapsed since
\*              it last armed its limiter, capped at DebounceUnits: since its last
\*              backend call (part_000), since its last call (index.tsx)
\*   burst      under measured time in index.tsx, per update function, its
\*              current burst of calls: the calls made in it (counted up to
\*              MaxBurst) and the backend calls its timer has issued since it
\*              began; a burst begins with a call made DEBOUNCE_MS or more after
\*              the function's last call, and is forgotten when time moves on
\*              with no timer of the function pending
\*   chanSends  under measured time in index.tsx, per backend method, the backend
\*              calls issued since the current burst of calls of the method's
\*              update functions began
\*   order      where the order of the polls is followed: stale, the number of
\*              outstanding polls issued before the latest-issued poll that has
\*              resolved (they are the first in polls), and newest, the result
\*              of that poll (1 or 0)

\* the setters that issued a backend call between the logs old and new
Senders(old, new) == {new[i].by : i \in (Len(old) + 1)..Len(new)}

\* the history after operation op(arg): `called` maps the update functions it
\* called to their arguments, newSent is the call log after it, `commit` the
\* user's last values
Record(op, arg, called, newSent, commit) ==
  LET timedD == hist.metric /\ variant = "debounce"
      timedT == hist.metric /\ variant = "throttle"
      fired == Senders(sent, newSent)
  IN [hist EXCEPT
        !.lastOp = [op |-> op, arg |-> arg],
        !.committed = commit,
        !.lastArg = [s \in Setters |-> IF s \in DOMAIN called THEN called[s] ELSE @[s]],
        !.lastPushed = [s \in Setters |->
                         IF s \in DOMAIN called THEN s \in fired
                         ELSE IF s \in fired THEN TRUE
                         ELSE @[s]],
        !.since = [s \in Setters |->
                    IF \/ timedD /\ s \in DOMAIN called
                       \/ timedT /\ s \in fired
                    THEN 0 ELSE @[s]],
        !.burst = [s \in Setters |->
                    IF ~timedD THEN @[s]
                    ELSE IF s \in DOMAIN called
                         THEN (IF hist.since[s] >= DebounceUnits
                               THEN [calls |-> 1, sends |-> 0]
                               ELSE [@[s] EXCEPT !.calls = IF @ < MaxBurst THEN @ + 1 ELSE @])
                    ELSE IF s \in fired THEN [@[s] EXCEPT !.sends = @ + 1]
                    ELSE @[s]],
        !.chanSends = [m \in Methods |->
                        IF ~timedD THEN @[m]
                        ELSE IF \E s \in DOMAIN called : MethodOf(s) = m
                             THEN (IF \A t \in Setters :
                                        MethodOf(t) = m => hist.since[t] >= DebounceUnits
                                   THEN 0 ELSE @[m])
                        ELSE IF \E s \in fired : MethodOf(s) = m THEN @[m] + 1
                        ELSE @[m]]]

NoCalls == [s \in {} |-> None]
Note(op, arg) == Record(op, arg, NoCalls, sent, hist.committed)

\* -------------------------------------------------- the settings panel

\* index.tsx re-renders the panel after a handler's setState, and its effect on
\* [isHDREnabledGlobal] copies the global into isHDREnabled; part_000 updates
\* isHDREnabled only through hdrStateUpdateCallback.
PanelAfterHandler ==
  IF variant = "debounce" THEN [panel EXCEPT !.isHDREnabled = isHDRActive] ELSE panel

PanelMount ==
  /\ ~panel.mounted
  /\ panel' = [mounted |-> TRUE, isHDREnabled |-> isHDRActive]
  /\ hdrStateUpdateCallback' = (variant = "throttle")
  /\ hist' = Note("PanelMount", None)
  /\ UNCHANGED <<variant, surface, liveIntervals, readdTimers,
                 store, globalOverlayBrightnessPercent, globalTemperature,
                 isHDRActive, overlayUpdateCallback, hdrCheckInterval, wrapper, polls,
                 backendHDR, canUpdate, inflight, timeouts, sent, registered, dismounted>>

PanelUnmount ==
  /\ panel.mounted
  /\ panel' = [panel EXCEPT !.mounted = FALSE]
  /\ hdrStateUpdateCallback' = FALSE
  /\ hist' = Note("PanelUnmount", None)
  /\ UNCHANGED <<variant, surface, liveIntervals, readdTimers,
                 store, globalOverlayBrightnessPercent, globalTemperature,
                 isHDRActive, overlayUpdateCallback, hdrCheckInterval, wrapper, polls,
                 backendHDR, canUpdate, inflight, timeouts, sent, registered, dismounted>>

\* handleOverlayChange applying the overlay settings whatever the HDR flag
HandleOverlayChange_AlwaysApply(value) ==
  /\ panel.mounted
  /\ variant = "debounce" => panel.isHDREnabled
  /\ globalOverlayBrightnessPercent' = value
  /\ store' = [store EXCEPT !.overlay = 100 - value]
  /\ wrapper' = ApplyOverlaySettings(isHDRActive, value, globalTemperature, store',
                                     wrapper, overlayUpdateCallback)
  /\ panel' = PanelAfterHandler
  /\ hist' = Record("handleOverlayChange", value, NoCalls, sent,
                    [hist.committed EXCEPT !.overlay = value])
  /\ UNCHANGED <<variant, surface, liveIntervals, readdTimers,
                 globalTemperature, isHDRActive, overlayUpdateCallback,
                 hdrStateUpdateCallback, hdrCheckInterval, polls, backendHDR, canUpdate,
                 inflight, timeouts, sent, registered, dismounted>>

\* handleOverlayChange.  In index.tsx the slider is disabled while isHDREnabled
\* is false.
HandleOverlayChange(value) ==
  /\ panel.mounted
  /\ variant = "debounce" => panel.isHDREnabled
  /\ globalOverlayBrightnessPercent' = value
  /\ store' = [store EXCEPT !.overlay = 100 - value]
  /\ wrapper' = IF isHDRActive
                THEN ApplyOverlaySettings(isHDRActive, value, globalTemperature, store',
                                          wrapper, overlayUpdateCallback)
                ELSE wrapper
  /\ panel' = PanelAfterHandler
  /\ hist' = Record("handleOverlayChange", value, NoCalls, sent,
                    [hist.committed EXCEPT !.overlay = value])
  /\ UNCHANGED <<variant, surface, liveIntervals, readdTimers,
                 globalTemperature, isHDRActive, overlayUpdateCallback,
                 hdrStateUpdateCallback, hdrCheckInterval, polls, backendHDR, canUpdate,
                 inflight, timeouts, sent, registered, dismounted>>

\* handleLutChange -> updateLutBrightness
HandleLutChange(value) ==
  /\ panel.mounted
  /\ Len(sent) < MaxSent
  /\ LET rs == UpdateLutBrightness(RateState, value)
     IN /\ SetRateState(rs)
        /\ hist' = Record("handleLutChange", value, [s \in {"Lut"} |-> value], rs.sent,
                          [hist.committed EXCEPT !.lut = value])
  /\ panel' = PanelAfterHandler
  /\ UNCHANGED <<variant, surface, liveIntervals, readdTimers,
                 globalOverlayBrightnessPercent, isHDRActive,
                 overlayUpdateCallback, hdrStateUpdateCallback, hdrCheckInterval, wrapper,
                 polls, backendHDR, registered, dismounted>>

\* handleVibrancyChange -> updateVibrancy
HandleVibrancyChange(value) ==
  /\ panel.mounted
  /\ Len(sent) < MaxSent
  /\ LET rs == UpdateVibrancy(RateState, value)
     IN /\ SetRateState(rs)
        /\ hist' = Record("handleVibrancyChange", value, [s \in {"Vibrancy"} |-> value],
                          rs.sent,
                          [hist.committed EXCEPT !.vibrancy = value])
  /\ panel' = PanelAfterHandler
  /\ UNCHANGED <<variant, surface, liveIntervals, readdTimers,
                 globalOverlayBrightnessPercent, isHDRActive,
                 overlayUpdateCallback, hdrStateUpdateCallback, hdrCheckInterval, wrapper,
                 polls, backendHDR, registered, dismounted>>

\* handleTemperatureChange.  part_000: store, global, apply, updateTemperature.
\* index.tsx: updateTemperature, store, global, apply, updateTemperature again.
TemperatureChanged(rs, value) ==
  LET own(r) == [r EXCEPT !.store.temperature = value, !.globalTemperature = value]
  IN IF variant = "throttle" THEN UpdateTemperature(own(rs), value)
     ELSE UpdateTemperature(own(UpdateTemperature(rs, value)), value)

HandleTemperatureChange(value) ==
  /\ panel.mounted
  /\ Len(sent) < MaxSent
  /\ LET rs == TemperatureChanged(RateState, value)
     IN /\ SetRateState(rs)
        /\ hist' = Record("handleTemperatureChange", value,
                          [s \in {"Temperature"} |-> value], rs.sent,
                          [hist.committed EXCEPT !.temperature = value])
  /\ wrapper' = IF isHDRActive
                THEN ApplyOverlaySettings(isHDRActive, globalOverlayBrightnessPercent, value,
                                          store, wrapper, overlayUpdateCallback)
                ELSE wrapper
  /\ panel' = PanelAfterHandler
  /\ UNCHANGED <<variant, surface, liveIntervals, readdTimers,
                 globalOverlayBrightnessPercent, isHDRActive,
                 overlayUpdateCallback, hdrStateUpdateCallback, hdrCheckInterval, polls,
                 backendHDR, registered, dismounted>>

\* ------------------------------------------------ backend calls and timers

\* a settle step whose finally block arms the reopening timer only on success
CallSettle_RejectLeavesGate(s, ok) ==
  /\ inflight[s] > 0
  /\ inflight' = [inflight EXCEPT ![s] = @ - 1]
  /\ timeouts' = IF variant = "throttle" /\ ok = 1
                 THEN [timeouts EXCEPT ![s] = [rem |-> ThrottleUnits, val |-> None]]
                 ELSE timeouts
  /\ hist' = Note("settle" \o s, ok)
  /\ UNCHANGED <<variant, surface, liveIntervals, readdTimers,
                 store, globalOverlayBrightnessPercent, globalTemperature,
                 isHDRActive, overlayUpdateCallback, hdrStateUpdateCallback,
                 hdrCheckInterval, wrapper, panel, polls, backendHDR, canUpdate, sent,
                 registered, dismounted>>

\* a backend setter call resolves (ok = 1) or rejects (ok = 0).  part_000: the
\* finally block arms the THROTTLE_MS timer.  index.tsx: the rejection is logged.
CallSettle(s, ok) ==
  /\ inflight[s] > 0
  /\ inflight' = [inflight EXCEPT ![s] = @ - 1]
  /\ timeouts' = IF variant = "throttle"
                 THEN [timeouts EXCEPT ![s] = [rem |-> ThrottleUnits, val |-> None]]
                 ELSE timeouts
  /\ hist' = Note("settle" \o s, ok)
  /\ UNCHANGED <<variant, surface, liveIntervals, readdTimers,
                 store, globalOverlayBrightnessPercent, globalTemperature,
                 isHDRActive, overlayUpdateCallback, hdrStateUpdateCallback,
                 hdrCheckInterval, wrapper, panel, polls, backendHDR, canUpdate, sent,
                 registered, dismounted>>

\* the timer of setter s may fire: its delay has elapsed, or delays are arbitrary
TimerDue(s) ==
  \/ timeouts[s].rem = 0
  \/ ~hist.metric /\ timeouts[s].rem /= None

\* part_000: the timer of the finally block fires and reopens the gate
ThrottleReopen(s) ==
  /\ variant = "throttle"
  /\ TimerDue(s)
  /\ canUpdate' = [canUpdate EXCEPT ![s] = TRUE]
  /\ timeouts' = [timeouts EXCEPT ![s] = NoTimeout]
  /\ hist' = Note("reopen" \o s, None)
  /\ UNCHANGED <<variant, surface, liveIntervals, readdTimers,
                 store, globalOverlayBrightnessPercent, globalTemperature,
                 isHDRActive, overlayUpdateCallback, hdrStateUpdateCallback,
                 hdrCheckInterval, wrapper, panel, polls, backendHDR, inflight, sent,
                 registered, dismounted>>

\* a debounced temperature push sending the default brightness, not the stored one
DebouncedPush_DefaultBrightness(s, val, st) ==
  IF s = "Lut" THEN Push(s, val, GetTemperature(st), None)
  ELSE IF s = "Temperature" THEN Push(s, DEFAULT_LUT_BRIGHTNESS, val, None)
  ELSE Push(s, None, None, val)

\* index.tsx: the arguments a debounce timer's callback passes to the backend
DebouncedPush(s, val, st) ==
  IF s = "Lut" THEN Push(s, val, GetTemperature(st), None)
  ELSE IF s = "Temperature" THEN Push(s, GetLutBrightness(st), val, None)
  ELSE Push(s, None, None, val)

\* index.tsx: a debounce timer fires and issues its backend call
DebounceFire(s) ==
  /\ variant = "debounce"
  /\ TimerDue(s)
  /\ Len(sent) < MaxSent
  /\ sent' = Append(sent, DebouncedPush(s, timeouts[s].val, store))
  /\ inflight' = [inflight EXCEPT ![s] = @ + 1]
  /\ timeouts' = [timeouts EXCEPT ![s] = NoTimeout]
  /\ hist' = Record("fire" \o s, None, NoCalls, sent', hist.committed)
  /\ UNCHANGED <<variant, surface, liveIntervals, readdTimers,
                 store, globalOverlayBrightnessPercent, globalTemperature,
                 isHDRActive, overlayUpdateCallback, hdrStateUpdateCallback,
                 hdrCheckInterval, wrapper, panel, polls, backendHDR, canUpdate,
                 registered, dismounted>>

Bump(n) == IF n < DebounceUnits THEN n + 1 ELSE n

\* no update function of S has a timer pending: its burst of calls, if any, is
\* over, and the history forgets it when time moves on
Idle(S) == \A s \in S : timeouts[s].rem = None

\* Unit milliseconds pass; no timer is overdue
Advance ==
  /\ hist.metric
  /\ \A s \in Setters : timeouts[s].rem /= 0
  /\ timeouts' = [s \in Setters |->
                   IF timeouts[s].rem = None THEN timeouts[s]
                   ELSE [timeouts[s] EXCEPT !.rem = @ - 1]]
  /\ hist' = [hist EXCEPT
                !.lastOp = [op |-> "advance", arg |-> None],
                !.since = [s \in Setters |-> Bump(@[s])],
                !.burst = [s \in Setters |-> IF Idle({s}) THEN NoBurst ELSE @[s]],
                !.chanSends = [m \in Methods |->
                                IF Idle({s \in Setters : MethodOf(s) = m}) THEN 0
                                ELSE @[m]]]
  /\ UNCHANGED <<variant, surface, liveIntervals, readdTimers,
                 store, globalOverlayBrightnessPercent, globalTemperature,
                 isHDRActive, overlayUpdateCallback, hdrStateUpdateCallback,
                 hdrCheckInterval, wrapper, panel, polls, backendHDR, canUpdate, inflight,
                 sent, registered, dismounted>>

\* ------------------------------------------------------------ HDR monitor

RemoveAt(q, i) == SubSeq(q, 1, i - 1) \o SubSeq(q, i + 1, Len(q))

\* setInterval fires: checkHDRStatus issues one get_hdr_status call
IntervalTick ==
  /\ liveIntervals > 0
  /\ Len(polls) < MaxOutstanding
  /\ polls' = Append(polls, "sent")
  /\ hist' = Note("tick", None)
  /\ UNCHANGED <<variant, surface, liveIntervals, readdTimers,
                 store, globalOverlayBrightnessPercent, globalTemperature,
                 isHDRActive, overlayUpdateCallback, hdrStateUpdateCallback,
                 hdrCheckInterval, wrapper,
                 panel, backendHDR, canUpdate, inflight, timeouts, sent, registered,
                 dismounted>>

\* the order history after the i-th outstanding poll has settled with result
\* (1, 0, or None for a rejection): the polls before it were issued earlier
OrderAfter(o, i, result) ==
  IF o = NoOrder THEN o
  ELSE IF i <= o.stale THEN [o EXCEPT !.stale = @ - 1]
  ELSE IF result = None THEN o
  ELSE [stale |-> i - 1, newest |-> result]

\* the backend reads the display's flag for the i-th outstanding poll
BackendAnswer(i) ==
  /\ i \in 1..Len(polls)
  /\ polls[i] = "sent"
  /\ polls' = [polls EXCEPT ![i] = IF backendHDR THEN "true" ELSE "false"]
  /\ hist' = Note("answer", i)
  /\ UNCHANGED <<variant, surface, liveIntervals, readdTimers,
                 store, globalOverlayBrightnessPercent, globalTemperature,
                 isHDRActive, overlayUpdateCallback, hdrStateUpdateCallback,
                 hdrCheckInterval, wrapper, panel, backendHDR, canUpdate, inflight,
                 timeouts, sent, registered, dismounted>>

\* the display enters or leaves HDR mode
BackendHDRChange ==
  /\ backendHDR' = ~backendHDR
  /\ hist' = Note("display", None)
  /\ UNCHANGED <<variant, surface, liveIntervals, readdTimers,
                 store, globalOverlayBrightnessPercent, globalTemperature,
                 isHDRActive, overlayUpdateCallback, hdrStateUpdateCallback,
                 hdrCheckInterval, wrapper, panel, polls, canUpdate, inflight, timeouts,
                 sent, registered, dismounted>>

\* checkHDRStatus notifying the overlay before it updates the cached flag
CheckHDRStatusResolved_ApplyFirst(newHDRStatus) ==
  IF newHDRStatus /= isHDRActive
  THEN /\ isHDRActive' = newHDRStatus
       /\ wrapper' = ApplyOverlaySettings(isHDRActive, globalOverlayBrightnessPercent,
                                          globalTemperature, store, wrapper,
                                          overlayUpdateCallback)
       /\ panel' = IF hdrStateUpdateCallback
                   THEN [panel EXCEPT !.isHDREnabled = newHDRStatus]
                   ELSE panel
  ELSE UNCHANGED <<isHDRActive, wrapper, panel>>

\* checkHDRStatus after its await resolved with newHDRStatus
CheckHDRStatusResolved(newHDRStatus) ==
  IF newHDRStatus /= isHDRActive
  THEN /\ isHDRActive' = newHDRStatus
       /\ wrapper' = ApplyOverlaySettings(newHDRStatus, globalOverlayBrightnessPercent,
                                          globalTemperature, store, wrapper,
                                          overlayUpdateCallback)
       /\ panel' = IF hdrStateUpdateCallback
                   THEN [panel EXCEPT !.isHDREnabled = newHDRStatus]
                   ELSE panel
  ELSE UNCHANGED <<isHDRActive, wrapper, panel>>

PollResolve(i) ==
  /\ i \in 1..Len(polls)
  /\ polls[i] /= "sent"
  /\ CheckHDRStatusResolved(polls[i] = "true")
  /\ polls' = RemoveAt(polls, i)
  /\ hist' = [Note(IF (polls[i] = "true") /= isHDRActive THEN "pollChanged"
                                                            ELSE "pollSame",
                   IF polls[i] = "true" THEN 1 ELSE 0)
                EXCEPT !.order = OrderAfter(@, i, IF polls[i] = "true" THEN 1 ELSE 0)]
  /\ UNCHANGED <<variant, surface, liveIntervals, readdTimers,
                 store, globalOverlayBrightnessPercent, globalTemperature,
                 overlayUpdateCallback, hdrStateUpdateCallback, hdrCheckInterval,
                 backendHDR, canUpdate, inflight, timeouts, sent, registered, dismounted>>

\* the catch block taking a failed poll for "HDR inactive"
CheckHDRStatusRejected_AsInactive == CheckHDRStatusResolved(FALSE)

\* checkHDRStatus after its await rejected: the catch block logs
CheckHDRStatusRejected == UNCHANGED <<isHDRActive, wrapper, panel>>

PollReject(i) ==
  /\ i \in 1..Len(polls)
  /\ CheckHDRStatusRejected
  /\ polls' = RemoveAt(polls, i)
  /\ hist' = [Note("pollReject", i) EXCEPT !.order = OrderAfter(@, i, None)]
  /\ UNCHANGED <<variant, surface, liveIntervals, readdTimers,
                 store, globalOverlayBrightnessPercent, globalTemperature,
                 overlayUpdateCallback, hdrStateUpdateCallback, hdrCheckInterval,
                 backendHDR, canUpdate, inflight, timeouts, sent, registered, dismounted>>

\* ---------------------------------------------------------- OverlayWrapper

\* the host renders the registered global component: useState initialisers run
WrapperRender ==
  /\ registered
  /\ wrapper.phase = "unmounted"
  /\ wrapper' = WrapperInitialState(isHDRActive, globalOverlayBrightnessPercent,
                                    globalTemperature)
  /\ hist' = Note("wrapperRender", None)
  /\ UNCHANGED <<variant, surface, liveIntervals, readdTimers,
                 store, globalOverlayBrightnessPercent, globalTemperature,
                 isHDRActive, overlayUpdateCallback, hdrStateUpdateCallback,
                 hdrCheckInterval, panel, polls, backendHDR, canUpdate, inflight,
                 timeouts, sent, registered, dismounted>>

\* the mount effect registers overlayUpdateCallback
WrapperEffect ==
  /\ wrapper.phase = "rendered"
  /\ wrapper' = [wrapper EXCEPT !.phase = "mounted"]
  /\ overlayUpdateCallback' = TRUE
  /\ hist' = Note("wrapperEffect", None)
  /\ UNCHANGED <<variant, surface, liveIntervals, readdTimers,
                 store, globalOverlayBrightnessPercent, globalTemperature,
                 isHDRActive, hdrStateUpdateCallback, hdrCheckInterval, panel, polls,
                 backendHDR, canUpdate, inflight, timeouts, sent, registered, dismounted>>

\* the host unmounts the wrapper: the effect's cleanup clears the callback
WrapperUnmount ==
  /\ wrapper.phase /= "unmounted"
  /\ wrapper' = Unmounted
  /\ overlayUpdateCallback' = IF wrapper.phase = "mounted" THEN FALSE
                              ELSE overlayUpdateCallback
  /\ hist' = Note("wrapperUnmount", None)
  /\ UNCHANGED <<variant, surface, liveIntervals, readdTimers,
                 store, globalOverlayBrightnessPercent, globalTemperature,
                 isHDRActive, hdrStateUpdateCallback, hdrCheckInterval, panel, polls,
                 backendHDR, canUpdate, inflight, timeouts, sent, registered, dismounted>>

\* ------------------------------------------------------------- lifecycle

\* stopHDRMonitoring: the handle afterwards
StopHDRMonitoring(interval) == None

\* stopHDRMonitoring leaving the interval timer running
ClearInterval_NotCleared(interval, live) == live

\* clearInterval(hdrCheckInterval) under "if (hdrCheckInterval)": the timer the
\* handle names stops, any other live timer keeps running
ClearInterval(interval, live) == IF interval /= None THEN live - 1 ELSE live

\* onDismount: stopHDRMonitoring(); updateVibrancy(0.5); removeGlobalComponent
OnDismount ==
  /\ ~dismounted
  /\ Len(sent) < MaxSent
  /\ hdrCheckInterval' = StopHDRMonitoring(hdrCheckInterval)
  /\ LET rs == UpdateVibrancy(RateState, DEFAULT_VIBRANCY)
     IN /\ SetRateState(rs)
        /\ hist' = Record("onDismount", None, [s \in {"Vibrancy"} |-> DEFAULT_VIBRANCY],
                          rs.sent, hist.committed)
  /\ liveIntervals' = ClearInterval(hdrCheckInterval, liveIntervals)
  /\ registered' = FALSE
  /\ dismounted' = TRUE
  /\ UNCHANGED <<variant, surface, readdTimers, globalOverlayBrightnessPercent, isHDRActive,
                 overlayUpdateCallback, hdrStateUpdateCallback, wrapper, panel, polls,
                 backendHDR>>

\* interval timers alive at once in one run
MaxIntervals == 2

\* startHDRMonitoring called again: checkHDRStatus() issues a poll and setInterval
\* creates a timer whose handle overwrites hdrCheckInterval
StartHDRMonitoring ==
  /\ liveIntervals < MaxIntervals
  /\ Len(polls) < MaxOutstanding
  /\ polls' = Append(polls, "sent")
  /\ hdrCheckInterval' = HDR_CHECK_INTERVAL_MS
  /\ liveIntervals' = liveIntervals + 1
  /\ hist' = Note("start", None)
  /\ UNCHANGED <<variant, surface, readdTimers, store, globalOverlayBrightnessPercent,
                 globalTemperature, isHDRActive, overlayUpdateCallback,
                 hdrStateUpdateCallback, wrapper, panel, backendHDR, canUpdate, inflight,
                 timeouts, sent, registered, dismounted>>

\* stopHDRMonitoring called on its own
StopHDRMonitoringCall ==
  /\ hdrCheckInterval' = StopHDRMonitoring(hdrCheckInterval)
  /\ liveIntervals' = ClearInterval(hdrCheckInterval, liveIntervals)
  /\ hist' = Note("stop", None)
  /\ UNCHANGED <<variant, surface, readdTimers, store, globalOverlayBrightnessPercent,
                 globalTemperature, isHDRActive, overlayUpdateCallback,
                 hdrStateUpdateCallback, wrapper, panel, polls, backendHDR, canUpdate,
                 inflight, timeouts, sent, registered, dismounted>>

\* ------------------------------- part_001: the remove / re-add revision

\* pending re-add timeouts kept in one run
MaxReadd == 2

\* the Overlay component as registered by a re-add: its opacityPercent prop
OverlayShown(percent) ==
  [phase |-> "rendered", opacityPercent |-> percent * 100, temperature |-> None]

\* the state after definePlugin of part_001: startHDRMonitoring, then
\* applyOverlayOpacity, whose removeGlobalComponent finds nothing registered and
\* whose 10 ms timeout is pending
InitReadd ==
  /\ variant = "readd"
  /\ store = EmptyStore
  /\ globalOverlayBrightnessPercent = GetOverlayBrightnessPercent(store)
  /\ globalTemperature = GetTemperature(store)
  /\ isHDRActive = FALSE
  /\ overlayUpdateCallback = FALSE
  /\ hdrStateUpdateCallback = FALSE
  /\ hdrCheckInterval = HDR_CHECK_INTERVAL_MS
  /\ wrapper = Unmounted
  /\ panel = [mounted |-> FALSE, isHDREnabled |-> FALSE]
  /\ polls = <<"sent">>
  /\ backendHDR = FALSE
  /\ canUpdate = [s \in Setters |-> TRUE]
  /\ inflight = [s \in Setters |-> 0]
  /\ timeouts = [s \in Setters |-> NoTimeout]
  /\ sent = <<>>
  /\ registered = FALSE
  /\ dismounted = FALSE
  /\ liveIntervals = 1
  /\ readdTimers = <<PercentMax>>
  /\ surface = NoSurface
  /\ hist = [metric |-> FALSE,
             lastOp |-> [op |-> "definePlugin", arg |-> None],
             committed |-> [overlay |-> None, lut |-> None, vibrancy |-> None,
                            temperature |-> None],
             lastArg |-> [s \in Setters |-> None],
             lastPushed |-> [s \in Setters |-> FALSE],
             since |-> [s \in Setters |-> DebounceUnits],
             burst |-> [s \in Setters |-> NoBurst],
             chanSends |-> [m \in Methods |-> 0],
             order |-> NoOrder]

\* applyOverlayOpacity of part_001: with serverAPIRef set (it is from
\* startHDRMonitoring until stopHDRMonitoring) the component is removed and a
\* 10 ms timeout capturing percent is armed
ApplyOverlayOpacityReadd(hdr, percent) ==
  IF ~dismounted
  THEN /\ registered' = FALSE
       /\ wrapper' = Unmounted
       /\ readdTimers' = Append(readdTimers, IF hdr THEN percent ELSE PercentMax)
  ELSE UNCHANGED <<registered, wrapper, readdTimers>>

\* handleOverlayChange of part_001; the slider is disabled while the panel's
\* last render saw isHDREnabledGlobal false
ReaddHandleOverlayChange(value) ==
  /\ panel.mounted
  /\ panel.isHDREnabled
  /\ Len(readdTimers) < MaxReadd
  /\ globalOverlayBrightnessPercent' = value
  /\ store' = [store EXCEPT !.overlay = PercentMax - value]
  /\ IF isHDRActive THEN ApplyOverlayOpacityReadd(isHDRActive, value)
     ELSE UNCHANGED <<registered, wrapper, readdTimers>>
  /\ panel' = [panel EXCEPT !.isHDREnabled = isHDRActive]
  /\ hist' = Record("handleOverlayChange", value, NoCalls, sent,
                    [hist.committed EXCEPT !.overlay = value])
  /\ UNCHANGED <<variant, surface, liveIntervals, globalTemperature, isHDRActive,
                 overlayUpdateCallback, hdrStateUpdateCallback, hdrCheckInterval, polls,
                 backendHDR, canUpdate, inflight, timeouts, sent, dismounted>>

\* checkHDR of part_001 after its await resolved
ReaddPollResolve(i) ==
  /\ i \in 1..Len(polls)
  /\ polls[i] /= "sent"
  /\ Len(readdTimers) < MaxReadd
  /\ IF (polls[i] = "true") /= isHDRActive
     THEN /\ isHDRActive' = (polls[i] = "true")
          /\ ApplyOverlayOpacityReadd(polls[i] = "true", globalOverlayBrightnessPercent)
     ELSE UNCHANGED <<isHDRActive, registered, wrapper, readdTimers>>
  /\ polls' = RemoveAt(polls, i)
  /\ hist' = Note(IF (polls[i] = "true") /= isHDRActive THEN "pollChanged" ELSE "pollSame",
                  IF polls[i] = "true" THEN 1 ELSE 0)
  /\ UNCHANGED <<variant, surface, liveIntervals, store, globalOverlayBrightnessPercent,
                 globalTemperature, overlayUpdateCallback, hdrStateUpdateCallback,
                 hdrCheckInterval, panel, backendHDR, canUpdate, inflight, timeouts, sent,
                 dismounted>>

\* a re-add timeout that adds the component through a reference it kept
ReaddTimerFire_KeptReference ==
  /\ readdTimers /= <<>>
  /\ readdTimers' = Tail(readdTimers)
  /\ registered' = TRUE
  /\ wrapper' = OverlayShown(Head(readdTimers))
  /\ hist' = Note("readd", Head(readdTimers))
  /\ UNCHANGED <<variant, surface, liveIntervals, store, globalOverlayBrightnessPercent,
                 globalTemperature, isHDRActive, overlayUpdateCallback,
                 hdrStateUpdateCallback, hdrCheckInterval, panel, polls, backendHDR,
                 canUpdate, inflight, timeouts, sent, dismounted>>

\* the oldest re-add timeout fires: serverAPIRef?.routerHook.addGlobalComponent
ReaddTimerFire ==
  /\ readdTimers /= <<>>
  /\ readdTimers' = Tail(readdTimers)
  /\ IF ~dismounted
     THEN /\ registered' = TRUE
          /\ wrapper' = OverlayShown(Head(readdTimers))
     ELSE UNCHANGED <<registered, wrapper>>
  /\ hist' = Note("readd", Head(readdTimers))
  /\ UNCHANGED <<variant, surface, liveIntervals, store, globalOverlayBrightnessPercent,
                 globalTemperature, isHDRActive, overlayUpdateCallback,
                 hdrStateUpdateCallback, hdrCheckInterval, panel, polls, backendHDR,
                 canUpdate, inflight, timeouts, sent, dismounted>>

\* onDismount of part_001: stopHDRMonitoring(); removeGlobalComponent
ReaddOnDismount ==
  /\ ~dismounted
  /\ hdrCheckInterval' = StopHDRMonitoring(hdrCheckInterval)
  /\ liveIntervals' = ClearInterval(hdrCheckInterval, liveIntervals)
  /\ registered' = FALSE
  /\ wrapper' = Unmounted
  /\ dismounted' = TRUE
  /\ hist' = Note("onDismount", None)
  /\ UNCHANGED <<variant, surface, readdTimers, store, globalOverlayBrightnessPercent,
                 globalTemperature, isHDRActive, overlayUpdateCallback,
                 hdrStateUpdateCallback, panel, polls, backendHDR, canUpdate, inflight,
                 timeouts, sent>>

\* ------------------------------------- part_002: the Overlay component

\* fixed point: 10^-4
Scale == 10000

BASE_TEMP_OPACITY == 10
MAX_TEMP_OPACITY == 2150
TEMP_OPACITY == 2000
MaxDiff == 4000

\* the two Overlay components of part_002: the first tints with
\* getSimpleTemperatureColor and dims with exponent 1.5, the second tints with
\* kelvinToRGB and dims with exponent 0.3
Builds == {"simple", "kelvin"}

\* a product of two fixed-point numbers in 0..Scale, rounded down
FxMul(a, b) == (a * b) \div Scale

FxPow10(r) ==
  LET r2 == FxMul(r, r)
      r4 == FxMul(r2, r2)
      r8 == FxMul(r4, r4)
  IN FxMul(r8, r2)

RECURSIVE Root10In(_, _, _)
Root10In(x, lo, hi) ==
  IF lo >= hi THEN lo
  ELSE LET mid == (lo + hi + 1) \div 2
       IN IF FxPow10(mid) <= x THEN Root10In(x, mid, hi) ELSE Root10In(x, lo, mid - 1)

\* Math.pow(t, 0.3) for t in 0..1: the cube of the tenth root in fixed point,
\* within 5 * 10^-4 of the power
Pow03(t) ==
  LET r == Root10In(t, 0, Scale)
  IN FxMul(FxMul(r, r), r)

\* getSmoothOpacity, exponent 0.3; percent in hundredths of a percent, the
\* result in 10^-8
GetSmoothOpacity03(percent) ==
  IF percent >= 10000 THEN 0
  ELSE IF percent <= 0 THEN OPACITY_AT_ZERO
  ELSE Pow03(10000 - percent) * Scale

\* the getSmoothOpacity of a build
SmoothOpacityOf(build, percent) ==
  IF build = "simple" THEN GetSmoothOpacity(percent) ELSE GetSmoothOpacity03(percent)

\* a tint whose multiplier is the share of brightness the overlay takes away
GetSimpleTemperatureOpacity_Inverted(kelvin, brightnessPercent) ==
  IF kelvin = NEUTRAL_TEMP THEN 0
  ELSE LET diff == kelvin - NEUTRAL_TEMP
           absDiff == IF diff < 0 THEN 0 - diff ELSE diff
           scaled == (absDiff * Scale) \div MaxDiff
           normalizedDiff == IF scaled > Scale THEN Scale ELSE scaled
           intensity == Pow03(normalizedDiff)
           baseOpacity == BASE_TEMP_OPACITY
                            + FxMul(MAX_TEMP_OPACITY - BASE_TEMP_OPACITY, intensity)
           brightnessMultiplier == Scale - brightnessPercent
       IN IF kelvin < NEUTRAL_TEMP
          THEN FxMul(FxMul(baseOpacity, brightnessMultiplier), intensity)
          ELSE FxMul(baseOpacity, brightnessMultiplier)

\* getSimpleTemperatureColor(kelvin, brightnessPercent).opacity, in 10^-4
GetSimpleTemperatureOpacity(kelvin, brightnessPercent) ==
  IF kelvin = NEUTRAL_TEMP THEN 0
  ELSE LET diff == kelvin - NEUTRAL_TEMP
           absDiff == IF diff < 0 THEN 0 - diff ELSE diff
           scaled == (absDiff * Scale) \div MaxDiff
           normalizedDiff == IF scaled > Scale THEN Scale ELSE scaled
           intensity == Pow03(normalizedDiff)
           baseOpacity == BASE_TEMP_OPACITY
                            + FxMul(MAX_TEMP_OPACITY - BASE_TEMP_OPACITY, intensity)
           brightnessMultiplier == brightnessPercent
       IN IF kelvin < NEUTRAL_TEMP
          THEN FxMul(FxMul(baseOpacity, brightnessMultiplier), intensity)
          ELSE FxMul(baseOpacity, brightnessMultiplier)

\* the alpha of the tint layer's background colour; 'transparent' is alpha 0
TintOpacity(build, kelvin, brightnessPercent) ==
  IF build = "simple"
  THEN IF kelvin = NEUTRAL_TEMP THEN 0
       ELSE GetSimpleTemperatureOpacity(kelvin, brightnessPercent)
  ELSE TEMP_OPACITY

\* props the Overlay is given
SurfacePercents == {0, 10, 50, 100, 405, 2930, 5000, 7500, 9900, 10000}
SurfaceTemperatures == {TemperatureMin, NEUTRAL_TEMP, TemperatureMax}

InitSurface ==
  /\ InitOf(FALSE)
  /\ variant = "throttle"
  /\ surface \in {[NoSurface EXCEPT !.build = b] : b \in Builds}

\* the first render: initialOpacity and the initial tint background
OverlayRender(percent, kelvin) ==
  /\ surface.phase = "unmounted"
  /\ surface' = [build |-> surface.build, phase |-> "rendered",
                 opacityPercent |-> percent, temperatureKelvin |-> kelvin,
                 opacity |-> SmoothOpacityOf(surface.build, percent),
                 tintOpacity |-> TintOpacity(surface.build, kelvin, percent)]
  /\ hist' = Note("overlayRender", percent)
  /\ UNCHANGED <<variant, liveIntervals, readdTimers, store, globalOverlayBrightnessPercent,
                 globalTemperature, isHDRActive, overlayUpdateCallback,
                 hdrStateUpdateCallback, hdrCheckInterval, wrapper, panel, polls,
                 backendHDR, canUpdate, inflight, timeouts, sent, registered, dismounted>>

\* the effect after the first render: isFirstRender is true, so the dimming
\* layer is left alone; the tint layer is set; isFirstRender becomes false
OverlayFirstEffect ==
  /\ surface.phase = "rendered"
  /\ surface' = [surface EXCEPT
                   !.phase = "mounted",
                   !.tintOpacity = TintOpacity(surface.build, surface.temperatureKelvin,
                                               surface.opacityPercent)]
  /\ hist' = Note("overlayEffect", None)
  /\ UNCHANGED <<variant, liveIntervals, readdTimers, store, globalOverlayBrightnessPercent,
                 globalTemperature, isHDRActive, overlayUpdateCallback,
                 hdrStateUpdateCallback, hdrCheckInterval, wrapper, panel, polls,
                 backendHDR, canUpdate, inflight, timeouts, sent, registered, dismounted>>

\* new props: the effect on [opacityPercent, temperatureKelvin] sets both layers
OverlayUpdate(percent, kelvin) ==
  /\ surface.phase = "mounted"
  /\ <<percent, kelvin>> /= <<surface.opacityPercent, surface.temperatureKelvin>>
  /\ surface' = [surface EXCEPT
                   !.opacityPercent = percent,
                   !.temperatureKelvin = kelvin,
                   !.opacity = SmoothOpacityOf(surface.build, percent),
                   !.tintOpacity = TintOpacity(surface.build, kelvin, percent)]
  /\ hist' = Note("overlayUpdate", percent)
  /\ UNCHANGED <<variant, liveIntervals, readdTimers, store, globalOverlayBrightnessPercent,
                 globalTemperature, isHDRActive, overlayUpdateCallback,
                 hdrStateUpdateCallback, hdrCheckInterval, wrapper, panel, polls,
                 backendHDR, canUpdate, inflight, timeouts, sent, registered, dismounted>>

\* the component is unmounted
OverlayUnmount ==
  /\ surface.phase /= "unmounted"
  /\ surface' = [NoSurface EXCEPT !.build = surface.build]
  /\ hist' = Note("overlayUnmount", None)
  /\ UNCHANGED <<variant, liveIntervals, readdTimers, store, globalOverlayBrightnessPercent,
                 globalTemperature, isHDRActive, overlayUpdateCallback,
                 hdrStateUpdateCallback, hdrCheckInterval, wrapper, panel, polls,
                 backendHDR, canUpdate, inflight, timeouts, sent, registered, dismounted>>

\* ------------------------------------------------------------ specifications

\* The overlay side: the panel, the overlay and temperature sliders, the HDR
\* monitor, OverlayWrapper and the teardown.  The steps left out (the LUT and
\* vibrancy sliders, the settling of backend setter calls and their timers) read
\* and write only the store's lut and vibrancy keys, the gates, the timers and
\* the call log.
OverlayStep(O, T) ==
  \/ PanelMount
  \/ PanelUnmount
  \/ \E value \in O : HandleOverlayChange(value)
  \/ \E value \in T : HandleTemperatureChange(value)
  \/ IntervalTick
  \/ \E i \in 1..MaxOutstanding : BackendAnswer(i)
  \/ BackendHDRChange
  \/ \E i \in 1..MaxOutstanding : PollResolve(i)
  \/ \E i \in 1..MaxOutstanding : PollReject(i)
  \/ WrapperRender
  \/ WrapperEffect
  \/ WrapperUnmount
  \/ OnDismount

\* The persistence and rate-limiting side: the panel, the four sliders, the
\* backend setter calls, their timers and the teardown.  The steps left out (the
\* HDR monitor and OverlayWrapper) read and write none of the store, the gates,
\* the timers and the call log.
RateStep(O, L, V, T) ==
  \/ PanelMount
  \/ PanelUnmount
  \/ \E value \in O : HandleOverlayChange(value)
  \/ \E value \in L : HandleLutChange(value)
  \/ \E value \in V : HandleVibrancyChange(value)
  \/ \E value \in T : HandleTemperatureChange(value)
  \/ \E s \in Setters, ok \in {0, 1} : CallSettle(s, ok)
  \/ \E s \in Setters : ThrottleReopen(s)
  \/ \E s \in Setters : DebounceFire(s)
  \/ OnDismount

Next == OverlayStep(OverlayValues, TemperatureValues)
Spec == Init /\ [][Next]_vars

NextRate == RateStep(OverlayValues, LutValues, VibrancyValues, TemperatureValues)
SpecRate == Init /\ [][NextRate]_vars

\* part_001: the panel, the overlay slider, the HDR monitor, the re-add timeouts
\* and the teardown.  The step left out (the LUT slider and its debounce timer)
\* reads and writes only the store's lut key and its own timer.
ReaddStep(O) ==
  \/ PanelMount
  \/ PanelUnmount
  \/ \E value \in O : ReaddHandleOverlayChange(value)
  \/ IntervalTick
  \/ \E i \in 1..MaxOutstanding : BackendAnswer(i)
  \/ BackendHDRChange
  \/ \E i \in 1..MaxOutstanding : ReaddPollResolve(i)
  \/ \E i \in 1..MaxOutstanding : PollReject(i)
  \/ ReaddTimerFire
  \/ ReaddOnDismount

NextReadd == ReaddStep(OverlayValues)
SpecReadd == InitReadd /\ [][NextReadd]_vars

\* The HDR monitor under any sequence of start and stop calls, with the panel
\* and OverlayWrapper its polls notify.
MonitorStep ==
  \/ StartHDRMonitoring
  \/ StopHDRMonitoringCall
  \/ IntervalTick
  \/ \E i \in 1..MaxOutstanding : BackendAnswer(i)
  \/ BackendHDRChange
  \/ \E i \in 1..MaxOutstanding : PollResolve(i)
  \/ \E i \in 1..MaxOutstanding : PollReject(i)
  \/ PanelMount
  \/ PanelUnmount
  \/ WrapperRender
  \/ WrapperEffect
  \/ WrapperUnmount

NextMonitor == MonitorStep
SpecMonitor == Init /\ [][NextMonitor]_vars

\* The Overlay component on its own, given any props.
SurfaceStep(P, K) ==
  \/ \E percent \in P, kelvin \in K : OverlayRender(percent, kelvin)
  \/ OverlayFirstEffect
  \/ \E percent \in P, kelvin \in K : OverlayUpdate(percent, kelvin)
  \/ OverlayUnmount

NextSurface == SurfaceStep(SurfacePercents, SurfaceTemperatures)
SpecSurface == InitSurface /\ [][NextSurface]_vars

\* The HDR monitor polling for ever: the ticks, the backend's answers, the
\* resolved polls and OverlayWrapper, with no rejected poll and no teardown.
\* Timers fire, awaited calls resolve and React runs a rendered component's
\* effect, so these steps are weakly fair; the display and the host's unmounting
\* of the wrapper are not.
LiveStep ==
  \/ IntervalTick
  \/ \E i \in 1..MaxOutstanding : BackendAnswer(i)
  \/ BackendHDRChange
  \/ \E i \in 1..MaxOutstanding : PollResolve(i)
  \/ WrapperRender
  \/ WrapperEffect
  \/ WrapperUnmount

NextLive == LiveStep
SpecLive ==
  /\ Init
  /\ [][NextLive]_vars
  /\ WF_vars(IntervalTick)
  /\ WF_vars(\E i \in 1..MaxOutstanding : BackendAnswer(i))
  /\ WF_vars(\E i \in 1..MaxOutstanding : PollResolve(i))
  /\ WF_vars(WrapperRender)
  /\ WF_vars(WrapperEffect)

\* The HDR monitor with the order of its polls followed: the interval timer, the
\* backend's answers, polls resolved and rejected in any order, the display and
\* OverlayWrapper.
OrderStep ==
  \/ IntervalTick
  \/ \E i \in 1..MaxOutstanding : BackendAnswer(i)
  \/ BackendHDRChange
  \/ \E i \in 1..MaxOutstanding : PollResolve(i)
  \/ \E i \in 1..MaxOutstanding : PollReject(i)
  \/ WrapperRender
  \/ WrapperEffect

InitOrder == InitWith(FALSE, TRUE) /\ surface = NoSurface
NextOrder == OrderStep
SpecOrder == InitOrder /\ [][NextOrder]_vars

\* Measured time: the three rate-limited sliders, their backend calls and
\* timers, the teardown and the clock.
TimedStep(L, V, T) ==
  \/ PanelMount
  \/ \E value \in L : HandleLutChange(value)
  \/ \E value \in V : HandleVibrancyChange(value)
  \/ \E value \in T : HandleTemperatureChange(value)
  \/ \E s \in Setters, ok \in {0, 1} : CallSettle(s, ok)
  \/ \E s \in Setters : ThrottleReopen(s)
  \/ \E s \in Setters : DebounceFire(s)
  \/ OnDismount
  \/ Advance

TimedVibrancyValues == {8}
TimedTemperatureValues == {NEUTRAL_TEMP}

NextTimed == TimedStep(LutValues, TimedVibrancyValues, TimedTemperatureValues)
SpecTimed == InitTimed /\ [][NextTimed]_vars

\* The persistence and rate-limiting side with the update functions called
\* directly: each takes any number, in the range of its slider or outside it.
AnyOverlayValues == {30, 150}
AnyLutValues == {LutSliderMin, 150}
AnyVibrancyValues == {8, 15}
AnyTemperatureValues == {NEUTRAL_TEMP, 10000}

NextAny == RateStep(AnyOverlayValues, AnyLutValues, AnyVibrancyValues, AnyTemperatureValues)
SpecAny == Init /\ [][NextAny]_vars

\* ------------------------------------------------------------------ claims

\* the percent applyOverlaySettings hands over for a stored brightness p while
\* HDR is active: p less the stored overlay opacity (100 - p) / 100
Compensated(p) == p * 100 - (100 - p)

\* C1: while the cached HDR flag is false the percent the overlay holds maps
\* under getSmoothOpacity to opacity 0, whatever overlay brightness is stored.
\* Stated for the state right after a poll has turned the flag off with the
\* overlay's update callback registered.
C1_InactiveTransparent ==
  (hist.lastOp.op = "pollChanged" /\ ~isHDRActive /\ overlayUpdateCallback)
    => RenderedOpacity(wrapper) = 0

C3_FunctionOfParameters ==
  [][(overlayUpdateCallback /\ overlayUpdateCallback' /\ wrapper' /= wrapper)
       => wrapper' = [WrapperInitialState(isHDRActive', globalOverlayBrightnessPercent',
                                          globalTemperature')
                        EXCEPT !.phase = "mounted"]]_vars

\* C4: the value stored under each of the four preference keys is the last value
\* the user passed to the corresponding setter, whatever backend results and
\* teardown have happened since.
C4_StoreIsLastCommitted ==
  /\ hist.committed.overlay /= None => store.overlay = 100 - hist.committed.overlay
  /\ hist.committed.lut /= None => store.lut = hist.committed.lut
  /\ hist.committed.vibrancy /= None => store.vibrancy = hist.committed.vibrancy
  /\ hist.committed.temperature /= None => store.temperature = hist.committed.temperature

\* the key of the store an update function writes, read from store st
StoredBy(s, st) ==
  IF s = "Lut" THEN st.lut ELSE IF s = "Vibrancy" THEN st.vibrancy ELSE st.temperature

\* the argument of a backend call that is its setter's own value
OwnValue(push) ==
  IF push.by = "Lut" THEN push.brightness
  ELSE IF push.by = "Vibrancy" THEN push.vibrancy
  ELSE push.temperature_kelvin

\* C5: every call of handleOverlayChange, updateLutBrightness, updateVibrancy and
\* updateTemperature leaves its value in the preference store in the step of the
\* call, with the gate open or closed and whatever becomes of the backend call;
\* and a backend call is issued only with its setter's value already stored.
C5_StoredOnCall ==
  [][LET op == hist'.lastOp.op
         arg == hist'.lastOp.arg
     IN /\ op = "handleOverlayChange" => store'.overlay = 100 - arg
        /\ op = "handleLutChange" => store'.lut = arg
        /\ op = "handleVibrancyChange" => store'.vibrancy = arg
        /\ op = "handleTemperatureChange" => store'.temperature = arg
        /\ op = "onDismount" => store'.vibrancy = DEFAULT_VIBRANCY
        /\ \A i \in (Len(sent) + 1)..Len(sent') :
             OwnValue(sent'[i]) = StoredBy(sent'[i].by, store')]_vars

\* updateVibrancy has just been called with the gate closed: the store holds its
\* value, the backend was last sent another
C5_Witness ==
  /\ variant = "throttle"
  /\ hist.lastOp.op = "handleVibrancyChange"
  /\ ~canUpdate["Vibrancy"]
  /\ store.vibrancy = hist.lastOp.arg
  /\ Len(sent) = 1
  /\ sent[1].by = "Vibrancy"
  /\ sent[1].vibrancy /= store.vibrancy

Quiet == \A s \in Setters : canUpdate[s] /\ inflight[s] = 0 /\ timeouts[s].rem = None

\* the backend calls issued so far on the channel of method m
OnChannel(m) == {i \in 1..Len(sent) : sent[i].method = m}

\* the last backend call on the channel of setter s carries the value s was last
\* called with
LastCallSent(s) ==
  LET I == OnChannel(MethodOf(s))
  IN /\ I /= {}
     /\ LET last == sent[CHOOSE i \in I : \A j \in I : j <= i]
        IN IF s = "Lut" THEN last.brightness = hist.lastArg[s]
           ELSE IF s = "Temperature" THEN last.temperature_kelvin = hist.lastArg[s]
           ELSE last.vibrancy = hist.lastArg[s]

\* C8: in part_000, once the calls of a burst have settled and the gates have
\* reopened, the value of the last setter call on each channel has been sent to
\* the backend.  At rest nothing is pending, so what has not been sent by then is
\* never sent.
C8_LastValueSent ==
  (variant = "throttle" /\ Quiet)
    => \A s \in Setters : hist.lastArg[s] /= None => LastCallSent(s)

\* C9: a rejected HDR poll leaves the cached flag, the overlay and the panel's
\* indicator as they were, and leaves the polling interval running.
C9_RejectKeepsState ==
  [][hist'.lastOp.op = "pollReject"
       => UNCHANGED <<isHDRActive, wrapper, panel, hdrCheckInterval,
                      globalOverlayBrightnessPercent, globalTemperature, store>>]_vars

\* a poll has just been rejected while HDR is active and the overlay dims
C9_Witness ==
  /\ hist.lastOp.op = "pollReject"
  /\ isHDRActive
  /\ wrapper.phase = "mounted"
  /\ RenderedOpacity(wrapper) > 0
  /\ hdrCheckInterval /= None

\* a handler call whose argument lies outside the range of its parameter
OutOfRange(o) ==
  \/ o.op = "handleOverlayChange" /\ o.arg \notin 0..PercentMax
  \/ o.op = "handleLutChange" /\ o.arg \notin 0..PercentMax
  \/ o.op = "handleVibrancyChange" /\ o.arg \notin 0..VibrancyMax
  \/ o.op = "handleTemperatureChange" /\ o.arg \notin TemperatureMin..TemperatureMax

\* C10: a setter called with a value outside the range of its parameter changes
\* none of the stored preference, the in-memory parameter, the overlay and the
\* scheduled or issued backend calls.
C10_OutOfRangeRejected ==
  [][OutOfRange(hist'.lastOp)
       => UNCHANGED <<store, globalOverlayBrightnessPercent, globalTemperature, wrapper,
                      sent, timeouts, canUpdate, inflight>>]_vars

\* the update function a step called, "" if it called none: the handlers of the
\* panel call theirs, onDismount calls updateVibrancy
CalledBy(o) ==
  IF o.op = "handleLutChange" THEN "Lut"
  ELSE IF o.op = "handleVibrancyChange" \/ o.op = "onDismount" THEN "Vibrancy"
  ELSE IF o.op = "handleTemperatureChange" THEN "Temperature"
  ELSE ""

\* the step is a call of one of the four setters
SetterCall(o) == CalledBy(o) \in Setters \/ o.op = "handleOverlayChange"

\* C11: once onDismount has run, a call of any of the four setters writes nothing
\* to the preference store, schedules and issues no backend call and leaves the
\* overlay as it is.
C11_StoppedSetterRejected ==
  [][(dismounted /\ SetterCall(hist'.lastOp))
       => UNCHANGED <<store, globalOverlayBrightnessPercent, globalTemperature, wrapper,
                      sent, timeouts, canUpdate, inflight>>]_vars

\* the step calls an update function with the value of that function's last call
SameValueCall(s) ==
  /\ CalledBy(hist'.lastOp) = s
  /\ hist'.lastArg[s] = hist.lastArg[s]

\* C12 as claimed: an update function called twice in a row with the same value
\* writes the store once and leads to one backend call at most: when the first
\* call has led to its backend call, the second issues and schedules none.
C12_SecondCallNoPush ==
  [][\A s \in Setters :
       (SameValueCall(s) /\ hist.lastPushed[s])
         => /\ store' = store
            /\ sent' = sent
            /\ variant = "debounce" => timeouts'[s].rem = None]_vars

\* C12: an update function called again with the value of its last call leaves
\* the stored value as it is and issues one backend call at most.  In part_000
\* the call issues a backend call unless its gate is closed; in index.tsx it
\* issues none and leaves exactly one timer pending, armed with its value.
C12_SecondCallRateLimited ==
  [][\A s \in Setters :
       SameValueCall(s)
         => /\ store' = store
            /\ Len(sent') <= Len(sent) + 1
            /\ variant = "throttle" => (sent' = sent <=> ~canUpdate[s])
            /\ variant = "debounce"
                 => /\ sent' = sent
                    /\ timeouts'[s].rem /= None
                    /\ timeouts'[s].val = hist'.lastArg[s]]_vars

\* updateVibrancy has just issued a second backend call with the value of the
\* first
C12_Witness ==
  /\ variant = "throttle"
  /\ CalledBy(hist.lastOp) = "Vibrancy"
  /\ Len(sent) = 2
  /\ sent[1] = sent[2]
  /\ sent[2].by = "Vibrancy"
  /\ sent[2].vibrancy = hist.lastArg["Vibrancy"]
  /\ hist.lastPushed["Vibrancy"]

\* the operations that may call applyOverlaySettings / applyOverlayOpacity
AppliesOverlay(o) ==
  o.op \in {"handleOverlayChange", "handleTemperatureChange", "pollChanged", "pollSame",
            "pollReject"}

\* C13: in part_000 and index.tsx "BlackOverlay" stays registered from the start
\* until onDismount: the registration changes in no step but onDismount, which
\* removes it, so no setter, HDR transition or poll completion adds or removes
\* the component; and a setter or poll completion changes what the overlay
\* shows only while the update callback of the mounted OverlayWrapper is set.
C13_RegisteredOnce ==
  [][/\ registered' /= registered
          => (hist'.lastOp.op = "onDismount" /\ registered /\ ~registered')
     /\ ~dismounted' => registered'
     /\ (AppliesOverlay(hist'.lastOp) /\ wrapper' /= wrapper)
          => /\ overlayUpdateCallback
             /\ wrapper.phase = "mounted"
             /\ wrapper'.phase = "mounted"]_vars

\* an overlay slider change has just been delivered through the callback to the
\* mounted overlay while HDR is active and the component is registered
C13_Witness ==
  /\ hist.lastOp.op = "handleOverlayChange"
  /\ registered
  /\ ~dismounted
  /\ isHDRActive
  /\ overlayUpdateCallback
  /\ wrapper.phase = "mounted"
  /\ wrapper.opacityPercent = Compensated(hist.lastOp.arg)

\* C14: in part_001 no re-add timeout calls addGlobalComponent("BlackOverlay")
\* while the component is registered.
C14_NoAddWhileRegistered ==
  [][hist'.lastOp.op = "readd" => (~registered \/ dismounted)]_vars

\* C15: a get_hdr_status poll issued before stopHDRMonitoring and completing
\* after it is discarded: the cached flag, the overlay and the panel's HDR label
\* stay as they were.
C15_LatePollDiscarded ==
  [][(hdrCheckInterval = None /\ hist'.lastOp.op \in {"pollChanged", "pollSame"})
       => UNCHANGED <<isHDRActive, wrapper, panel>>]_vars

\* C16: in index.tsx onDismount leaves no debounce timer pending and the stored
\* values as they were, and no timer armed before the teardown issues its
\* backend push after it.
C16_DismountCancelsTimers ==
  [][/\ (variant = "debounce" /\ hist'.lastOp.op = "onDismount")
          => /\ \A s \in Setters : timeouts'[s].rem = None
             /\ store' = store
     /\ (variant = "debounce" /\ dismounted)
          => \A s \in Setters : hist'.lastOp.op /= "fire" \o s]_vars

\* C17: after any sequence of startHDRMonitoring and stopHDRMonitoring calls at
\* most one interval timer is alive, and none once the handle has been cleared,
\* so that no poll is issued after a stop.
C17_AtMostOneInterval ==
  /\ liveIntervals <= 1
  /\ hdrCheckInterval = None => liveIntervals = 0

\* C18: in index.tsx, once every debounce timer has fired and every backend call
\* has settled, the last set_vibrancy call carries the vibrancy of the last
\* updateVibrancy call, and the last set_brightness_and_temperature call carries
\* both the brightness of the last updateLutBrightness call and the temperature
\* of the last updateTemperature call, however the calls and timers interleave.
C18_LastValuesAfterTimers ==
  (variant = "debounce" /\ Quiet)
    => \A s \in Setters : hist.lastArg[s] /= None => LastCallSent(s)

\* both the brightness and the temperature slider were moved; the brightness
\* timer fired first and the temperature timer's call carries both last values
C18_Witness ==
  /\ variant = "debounce"
  /\ Quiet
  /\ Len(sent) = 2
  /\ sent[1].by = "Lut"
  /\ sent[2].by = "Temperature"
  /\ hist.lastArg["Lut"] = LutSliderMin
  /\ sent[2].brightness = LutSliderMin
  /\ sent[2].temperature_kelvin = hist.lastArg["Temperature"]

\* backend calls of setter s that are scheduled and not issued (index.tsx: a
\* pending debounce timer) or issued and not settled
Pending(s) ==
  inflight[s] + (IF variant = "debounce" /\ timeouts[s].rem /= None THEN 1 ELSE 0)

\* the same, summed over the setters that call method m
PendingOn(m) ==
  LET n(s) == IF MethodOf(s) = m THEN Pending(s) ELSE 0
  IN n("Lut") + n("Vibrancy") + n("Temperature")

C20_ParametersInRange ==
  /\ globalOverlayBrightnessPercent \in 0..PercentMax
  /\ GetOverlayBrightnessPercent(store) \in 0..PercentMax
  /\ GetLutBrightnessPercent(store) \in 0..PercentMax
  /\ GetVibrancy(store) \in 0..VibrancyMax
  /\ globalTemperature \in TemperatureMin..TemperatureMax
  /\ GetTemperature(store) \in TemperatureMin..TemperatureMax

\* C21: onDismount stops the HDR monitor, issues a set_vibrancy call with the
\* neutral value 0.5, and has issued it by the time the overlay is unregistered,
\* in part_000 whatever the state of the vibrancy gate and in index.tsx.
C21_NeutralVibrancyBeforeRelease ==
  [][hist'.lastOp.op = "onDismount"
       => /\ hdrCheckInterval' = None
          /\ ~registered'
          /\ Len(sent') = Len(sent) + 1
          /\ sent'[Len(sent')].method = "set_vibrancy"
          /\ sent'[Len(sent')].vibrancy = DEFAULT_VIBRANCY]_vars

\* C22: getSmoothOpacity never grows when its percent grows, over every percent
\* in [0,100] and not only the whole ones, is 0 at percent 100 and below 1 at
\* percent 0, for both exponents.  Stated on the Overlay: an update to a percent
\* at least as large leaves the dimming layer at most as opaque.
C22_SmoothOpacityMonotone ==
  [][hist'.lastOp.op = "overlayUpdate"
       => /\ surface'.opacityPercent >= surface.opacityPercent
               => surface'.opacity <= surface.opacity
          /\ surface'.opacityPercent = 10000 => surface'.opacity = 0
          /\ surface'.opacityPercent = 0 => surface'.opacity < Scale * Scale]_vars

\* C23: whatever the brightness percent, an Overlay given the neutral temperature
\* 6500 K shows a tint layer of opacity zero, after the first render and after
\* every update, in both Overlay components of part_002.
C23_NeutralTintZero ==
  (surface.phase /= "unmounted" /\ surface.temperatureKelvin = NEUTRAL_TEMP)
    => surface.tintOpacity = 0

\* C24: while the cached HDR flag is active and the overlay's update callback is
\* registered, a temperature slider change delivers the new temperature to the
\* overlay and leaves the brightness percent it holds, and so the dimming
\* opacity, as it was.
C24_TemperatureKeepsPercent ==
  [][(hist'.lastOp.op = "handleTemperatureChange" /\ isHDRActive /\ overlayUpdateCallback)
       => /\ wrapper'.temperature = hist'.lastOp.arg
          /\ wrapper'.opacityPercent = wrapper.opacityPercent
          /\ RenderedOpacity(wrapper') = RenderedOpacity(wrapper)]_vars

\* C25: with the single start of definePlugin and the single stop of onDismount,
\* startHDRMonitoring has issued exactly one poll when it returns, every tick of
\* the interval issues exactly one further poll while the one timer is alive, and
\* once stopHDRMonitoring has cleared the handle no step issues a poll.
C25_PollPerTick ==
  /\ hist.lastOp.op = "definePlugin" => (polls = <<"sent">> /\ liveIntervals = 1)
  /\ [][/\ hist'.lastOp.op = "tick"
             => /\ liveIntervals = 1
                /\ hdrCheckInterval = HDR_CHECK_INTERVAL_MS
                /\ polls' = Append(polls, "sent")
        /\ hdrCheckInterval = None
             => /\ hist'.lastOp.op /= "tick"
                /\ Len(polls') <= Len(polls)
                /\ hdrCheckInterval' = None]_vars

\* onDismount has just stopped the monitor with the poll of the start and the
\* poll of one tick still outstanding
C25_Witness ==
  /\ hist.lastOp.op = "onDismount"
  /\ hdrCheckInterval = None
  /\ liveIntervals = 0
  /\ Len(polls) = 2

\* C26: at most one get_hdr_status poll is outstanding at any time: a tick that
\* fires while a poll has not settled issues no second poll.
C26_OnePollOutstanding == Len(polls) <= 1

\* C27: a resolved poll whose result differs from the cached flag updates the
\* flag and, in the same step and with the new flag, recomposes the overlay
\* through its callback and hands the new flag to the panel's callback, each
\* when registered and each once; a resolved poll whose result equals the cached
\* flag changes neither the flag nor the overlay nor the panel.
C27_FlagThenObservers ==
  [][/\ hist'.lastOp.op = "pollChanged"
          => /\ isHDRActive' /= isHDRActive
             /\ isHDRActive' = (hist'.lastOp.arg = 1)
             /\ IF overlayUpdateCallback
                THEN /\ wrapper'.opacityPercent =
                          (IF isHDRActive' THEN globalOverlayBrightnessPercent ELSE 100) * 100
                            - GetOverlayOpacity(store)
                     /\ wrapper'.temperature = globalTemperature
                     /\ wrapper'.phase = wrapper.phase
                ELSE wrapper' = wrapper
             /\ IF hdrStateUpdateCallback
                THEN panel' = [panel EXCEPT !.isHDREnabled = isHDRActive']
                ELSE panel' = panel
     /\ hist'.lastOp.op = "pollSame"
          => UNCHANGED <<isHDRActive, wrapper, panel>>]_vars

\* a poll has just turned the flag active with both the overlay's and the
\* panel's callback registered: both hold the new flag's values
C27_Witness ==
  /\ hist.lastOp.op = "pollChanged"
  /\ isHDRActive
  /\ overlayUpdateCallback
  /\ hdrStateUpdateCallback
  /\ panel.isHDREnabled
  /\ wrapper.opacityPercent = globalOverlayBrightnessPercent * 100 - GetOverlayOpacity(store)

\* the mounted overlay holds a percent composed for HDR flag c: the percent of a
\* fresh mount or the percent applyOverlaySettings delivers
ComposedFor(c) ==
  LET targetPercent == IF c THEN globalOverlayBrightnessPercent ELSE 100
  IN wrapper.opacityPercent \in {targetPercent * 100,
                                 targetPercent * 100 - GetOverlayOpacity(store)}

\* C28: if from some point on the display's HDR flag stays the same and polls
\* keep succeeding, then from some point on the cached flag equals it and the
\* mounted overlay is composed for it.
C28_EventuallyTracks ==
  \A c \in BOOLEAN :
    <>[](backendHDR = c)
      => <>[](isHDRActive = c /\ (wrapper.phase = "mounted" => ComposedFor(c)))

\* C29: while the cached HDR flag is inactive an overlay slider change stores the
\* value, sets the in-memory overlay brightness and leaves the percent and the
\* temperature the overlay holds as they were.
C29_InactiveNoRecompose ==
  [][(hist'.lastOp.op = "handleOverlayChange" /\ ~isHDRActive)
       => /\ GetOverlayBrightnessPercent(store') = hist'.lastOp.arg
          /\ globalOverlayBrightnessPercent' = hist'.lastOp.arg
          /\ wrapper' = wrapper]_vars

\* the overlay slider was just moved to 30 with HDR inactive and the overlay
\* mounted with its callback registered: the overlay still holds what it held
C29_Witness ==
  /\ hist.lastOp.op = "handleOverlayChange"
  /\ ~isHDRActive
  /\ overlayUpdateCallback
  /\ wrapper.phase = "mounted"
  /\ globalOverlayBrightnessPercent = 30
  /\ GetOverlayOpacity(store) = 70
  /\ wrapper.opacityPercent = 10000

\* C30: in part_000 a call of an update function that finds its gate closed is
\* dropped: it issues no backend call and leaves the gates, the calls in flight
\* and the cooldown timers as they were; and nothing is queued, as a backend call
\* is issued only in the step of a call that finds its gate open, with the value
\* of that call.
C30_ClosedGateDrops ==
  [][variant = "throttle"
       => /\ \A s \in Setters :
               (CalledBy(hist'.lastOp) = s /\ ~canUpdate[s])
                 => /\ sent' = sent
                    /\ timeouts' = timeouts
                    /\ canUpdate' = canUpdate
                    /\ inflight' = inflight
          /\ sent' /= sent
               => /\ CalledBy(hist'.lastOp) \in Setters
                  /\ canUpdate[CalledBy(hist'.lastOp)]
                  /\ Len(sent') = Len(sent) + 1
                  /\ sent'[Len(sent')].by = CalledBy(hist'.lastOp)
                  /\ OwnValue(sent'[Len(sent')]) = hist'.lastArg[CalledBy(hist'.lastOp)]]_vars

\* part_000: the brightness slider was just moved while its gate was closed and
\* the cooldown was running; the value was stored and not sent
C30_Witness ==
  /\ variant = "throttle"
  /\ hist.metric
  /\ hist.lastOp.op = "handleLutChange"
  /\ ~canUpdate["Lut"]
  /\ timeouts["Lut"].rem /= None
  /\ ~hist.lastPushed["Lut"]
  /\ Len(sent) = 1
  /\ sent[1].by = "Lut"
  /\ sent[1].brightness /= hist.lastArg["Lut"]

\* C31: in part_000 every backend call that settles, resolved or rejected, arms
\* the timer of THROTTLE_MS that reopens its setter's gate and leaves the stored
\* values as they are; a closed gate always has its call in flight or that timer
\* pending, so it is never left closed; the gate reopens when the timer has run
\* its full THROTTLE_MS, and a setter call that finds the gate open is sent.
C31_GateReopensAfterSettle ==
  /\ (variant = "throttle"
        => \A s \in Setters :
             /\ ~canUpdate[s] => (inflight[s] > 0 \/ timeouts[s].rem /= None)
             /\ timeouts[s].rem /= None => (~canUpdate[s] /\ inflight[s] = 0))
  /\ [][variant = "throttle"
          => \A s \in Setters :
               /\ hist'.lastOp.op = "settle" \o s
                    => /\ hist'.lastOp.arg \in {0, 1}
                       /\ timeouts'[s] = [rem |-> ThrottleUnits, val |-> None]
                       /\ store' = store
                       /\ globalTemperature' = globalTemperature
                       /\ ~canUpdate'[s]
               /\ (hist'.lastOp.op = "advance" /\ timeouts[s].rem /= None)
                    => /\ timeouts[s].rem > 0
                       /\ timeouts'[s].rem = timeouts[s].rem - 1
               /\ (~canUpdate[s] /\ canUpdate'[s])
                    => /\ hist'.lastOp.op = "reopen" \o s
                       /\ timeouts[s].rem = 0
               /\ (CalledBy(hist'.lastOp) = s /\ canUpdate[s])
                    => /\ Len(sent') = Len(sent) + 1
                       /\ sent'[Len(sent')].by = s]_vars

\* part_000: the brightness call was just rejected; the reopening timer runs with
\* its full delay and the store still holds the value that was sent
C31_Witness ==
  /\ variant = "throttle"
  /\ hist.metric
  /\ hist.lastOp = [op |-> "settleLut", arg |-> 0]
  /\ timeouts["Lut"] = [rem |-> ThrottleUnits, val |-> None]
  /\ ~canUpdate["Lut"]
  /\ Len(sent) = 1
  /\ sent[1].by = "Lut"
  /\ GetLutBrightness(store) = sent[1].brightness

\* the Overlay with getSimpleTemperatureColor shows a non-neutral temperature
SimpleTinted(s) ==
  /\ s.build = "simple"
  /\ s.phase /= "unmounted"
  /\ s.temperatureKelvin /= NEUTRAL_TEMP

\* C32 as stated: for a fixed non-neutral temperature the tint opacity of
\* getSimpleTemperatureColor is smallest at brightness percent 100 and does not
\* decrease when the percent decreases.
C32_TintSmallestWhenTransparent ==
  /\ SimpleTinted(surface)
       => surface.tintOpacity
            >= GetSimpleTemperatureOpacity(surface.temperatureKelvin, PercentMax * 100)
  /\ [][(/\ SimpleTinted(surface)
         /\ hist'.lastOp.op = "overlayUpdate"
         /\ surface'.temperatureKelvin = surface.temperatureKelvin
         /\ surface'.opacityPercent < surface.opacityPercent)
          => surface'.tintOpacity >= surface.tintOpacity]_vars

\* C32 amended: for a fixed non-neutral temperature the tint opacity of
\* getSimpleTemperatureColor is largest, and above zero, at brightness percent
\* 100, where the dimming layer is transparent; it is zero at percent 0 and does
\* not increase when the percent decreases.
C32_TintLargestWhenTransparent ==
  /\ SimpleTinted(surface)
       => /\ surface.tintOpacity
               <= GetSimpleTemperatureOpacity(surface.temperatureKelvin, PercentMax * 100)
          /\ GetSimpleTemperatureOpacity(surface.temperatureKelvin, PercentMax * 100) > 0
          /\ surface.opacityPercent = 0 => surface.tintOpacity = 0
  /\ [][(/\ SimpleTinted(surface)
         /\ hist'.lastOp.op = "overlayUpdate"
         /\ surface'.temperatureKelvin = surface.temperatureKelvin
         /\ surface'.opacityPercent < surface.opacityPercent)
          => surface'.tintOpacity <= surface.tintOpacity]_vars

\* the warm tint was just updated to brightness percent 50, where the dimming
\* layer is set, and is weaker than it is at percent 100
C32_Witness ==
  /\ SimpleTinted(surface)
  /\ hist.lastOp.op = "overlayUpdate"
  /\ surface.temperatureKelvin = TemperatureMin
  /\ surface.opacityPercent = 5000
  /\ surface.opacity > 0
  /\ surface.tintOpacity > 0
  /\ surface.tintOpacity
       < GetSimpleTemperatureOpacity(surface.temperatureKelvin, PercentMax * 100)

\* C33: while the settings panel is mounted, the HDR indicator it shows equals
\* the cached HDR flag after every poll that completed, in part_000 and in
\* index.tsx.
C33_IndicatorFollowsFlag ==
  [][(/\ panel.mounted
      /\ hist'.lastOp.op \in {"pollChanged", "pollSame"})
       => panel'.isHDREnabled = isHDRActive']_vars

\* C34: the cached HDR flag always equals the result of the latest-issued poll
\* among those that have resolved, and the late response of a poll issued before
\* that one changes neither the flag nor what the overlay shows.
C34_NewestPollWins ==
  /\ hist.order.newest /= None => isHDRActive = (hist.order.newest = 1)
  /\ [][(/\ hist'.lastOp.op \in {"pollChanged", "pollSame"}
         /\ hist'.order.stale < hist.order.stale)
          => UNCHANGED <<isHDRActive, wrapper>>]_vars

\* C35: a change of the cached HDR flag made while overlayUpdateCallback is not
\* registered, the time between the wrapper's first render and its effect
\* included, is not lost: whenever the wrapper is mounted with its callback
\* registered, the percent it holds is the one composed for the cached flag.
C35_FlagChangeNotLost ==
  (wrapper.phase = "mounted" /\ overlayUpdateCallback) => ComposedFor(isHDRActive)

\* C36: in part_001, once onDismount has run no 'BlackOverlay' is registered and
\* none is shown, in that state and in every later one: no step after it, a
\* pending re-add timeout or a poll that resolves late included, registers the
\* component again.
C36_NoOverlayAfterDismount ==
  /\ dismounted => (~registered /\ wrapper = Unmounted)
  /\ [][dismounted => (dismounted' /\ ~registered' /\ wrapper' = Unmounted)]_vars

\* part_001: a re-add timeout armed before onDismount has just fired after it
\* and added nothing
C36_Witness ==
  /\ variant = "readd"
  /\ dismounted
  /\ hist.lastOp.op = "readd"
  /\ ~registered
  /\ hdrCheckInterval = None

====
